---- MODULE Spec2Model ----
(***************************************************************************)
(* Optional scalar parameters (package params): String, Bool, Int, Time.   *)
(* Each instance is a (value, present) pair that is mutated by             *)
(* UnmarshalJSON and Set and read by Value/Get, Present and MarshalJSON.   *)
(*                                                                         *)
(* Byte strings are sequences of one-character strings, so that trimming,  *)
(* quoting, JSON scanning and number and time parsing are computed the way *)
(* the code and the library calls it makes compute them.                   *)
(***************************************************************************)
EXTENDS Integers, Sequences, FiniteSets, TLC

(***************************************************************************)
(* Characters                                                              *)
(***************************************************************************)
Quote == "\""
Backslash == "\\"
\* a byte that is not valid UTF-8, and U+FFFD, which the JSON library puts in its place
BadByte == "0xFF"
RuneError == "U+FFFD"

DigitChars == <<"0","1","2","3","4","5","6","7","8","9">>
UpperChars == <<"A","B","C","D","E","F","G","H","I","J","K","L","M",
                "N","O","P","Q","R","S","T","U","V","W","X","Y","Z">>
LowerChars == <<"a","b","c","d","e","f","g","h","i","j","k","l","m",
                "n","o","p","q","r","s","t","u","v","w","x","y","z">>

Range(f) == {f[k] : k \in DOMAIN f}
isDigit(c) == c \in Range(DigitChars)
DigitVal(c) == CHOOSE d \in 0..9 : DigitChars[d + 1] = c
isUpper(c) == c \in Range(UpperChars)

\* the tail of s from index k on
Tail_(s, k) == SubSeq(s, k, Len(s))
HasPrefix(s, p) == Len(s) >= Len(p) /\ SubSeq(s, 1, Len(p)) = p

(***************************************************************************)
(* package strings                                                         *)
(***************************************************************************)
RECURSIVE TrimLeft(_, _)
TrimLeft(s, cutset) ==
    IF Len(s) > 0 /\ s[1] \in cutset THEN TrimLeft(Tail(s), cutset) ELSE s

RECURSIVE TrimRight(_, _)
TrimRight(s, cutset) ==
    IF Len(s) > 0 /\ s[Len(s)] \in cutset
    THEN TrimRight(SubSeq(s, 1, Len(s) - 1), cutset) ELSE s

\* strings.Trim(s, cutset): every leading and trailing character of cutset goes
Trim(s, cutset) == TrimRight(TrimLeft(s, cutset), cutset)

ToLowerChar(c) ==
    IF isUpper(c) THEN LowerChars[CHOOSE k \in 1..26 : UpperChars[k] = c] ELSE c
\* strings.ToLower
ToLower(s) == [k \in 1..Len(s) |-> ToLowerChar(s[k])]

(***************************************************************************)
(* Errors: nil, or what failed and the text it names                       *)
(***************************************************************************)
Nil == [msg |-> "nil", arg |-> <<>>]
Errorf(m, data) == [msg |-> m, arg |-> data]

tokNull == <<"n","u","l","l">>
tokTrue == <<"t","r","u","e">>
tokFalse == <<"f","a","l","s","e">>

(***************************************************************************)
(* package encoding/json, as far as the code calls it: json.Unmarshal into *)
(* a string and into a json.Number, and json.Marshal of a string.  The     *)
(* model's inputs hold scalars only (no arrays or objects).                *)
(***************************************************************************)
jsonSpace == {" ", "\t", "\n", "\r"}
isControl(c) == c \in {"\t", "\n", "\r"}
isHex(c) == isDigit(c) \/ c \in {"a","b","c","d","e","f","A","B","C","D","E","F"}
simpleEscapes == {Quote, Backslash, "/", "b", "f", "n", "r", "t"}

RECURSIVE dropDigits(_)
dropDigits(s) == IF Len(s) > 0 /\ isDigit(s[1]) THEN dropDigits(Tail(s)) ELSE s

\* encoding/json isValidNumber: -? (0 | [1-9][0-9]*) (. [0-9]+)? ([eE] [+-]? [0-9]+)?
\* (each step takes what the step before left of the text)
numExponent(s) ==
    IF Len(s) >= 2 /\ s[1] \in {"e", "E"} THEN
        IF s[2] \in {"+", "-"} THEN Len(s) > 2 /\ dropDigits(Tail_(s, 3)) = <<>>
        ELSE dropDigits(Tail(s)) = <<>>
    ELSE s = <<>>
numFraction(s) ==
    numExponent(IF Len(s) >= 2 /\ s[1] = "." /\ isDigit(s[2])
                THEN dropDigits(Tail_(s, 3)) ELSE s)
numInteger(s) ==
    /\ Len(s) > 0 /\ isDigit(s[1])
    /\ numFraction(IF s[1] = "0" THEN Tail(s) ELSE dropDigits(Tail(s)))
isValidNumber(s) == numInteger(IF Len(s) > 0 /\ s[1] = "-" THEN Tail(s) ELSE s)

\* the index of the quote closing the string literal whose body starts at k,
\* or 0 when the literal is malformed (unterminated, bad escape, raw control)
RECURSIVE stringEnd(_, _)
stringEnd(s, k) ==
    IF k > Len(s) THEN 0
    ELSE IF s[k] = Quote THEN k
    ELSE IF s[k] = Backslash THEN
        IF k + 1 > Len(s) THEN 0
        ELSE IF s[k + 1] \in simpleEscapes THEN stringEnd(s, k + 2)
        ELSE IF s[k + 1] = "u" /\ k + 5 <= Len(s)
                /\ \A j \in (k + 2)..(k + 5) : isHex(s[j])
             THEN stringEnd(s, k + 6)
        ELSE 0
    ELSE IF isControl(s[k]) THEN 0
    ELSE stringEnd(s, k + 1)

escapeOf(c) ==
    CASE c = "n" -> "\n" [] c = "t" -> "\t" [] c = "r" -> "\r"
      [] c = "b" -> "U+0008" [] c = "f" -> "U+000C" [] OTHER -> c

\* the code points the model's \uXXXX escapes name
u4(h) ==
    LET l == ToLower(h) IN
    CASE l = <<"0","0","3","c">> -> "<"
      [] l = <<"0","0","3","e">> -> ">"
      [] l = <<"0","0","2","6">> -> "&"
      [] l = <<"0","0","3","1">> -> "1"
      [] OTHER -> RuneError

\* unquote: the text a well-formed string literal's body denotes
RECURSIVE unquote(_)
unquote(body) ==
    IF body = <<>> THEN <<>>
    ELSE IF body[1] = Backslash THEN
        IF body[2] = "u" THEN <<u4(SubSeq(body, 3, 6))>> \o unquote(Tail_(body, 7))
        ELSE <<escapeOf(body[2])>> \o unquote(Tail_(body, 3))
    ELSE IF body[1] = BadByte THEN <<RuneError>> \o unquote(Tail(body))
    ELSE <<body[1]>> \o unquote(Tail(body))

\* what kind of JSON value data holds: "syntax" when it is not one JSON scalar
scalarKind(t) ==
    IF t = <<>> THEN "syntax"
    ELSE IF t = tokNull THEN "null"
    ELSE IF t \in {tokTrue, tokFalse} THEN "bool"
    ELSE IF t[1] = Quote THEN
        IF stringEnd(t, 2) = Len(t) THEN "string" ELSE "syntax"
    ELSE IF isValidNumber(t) THEN "number"
    ELSE "syntax"
jsonKind(data) == scalarKind(Trim(data, jsonSpace))

\* the text between the quotes of a string literal
stringBody(t) == SubSeq(t, 2, Len(t) - 1)
jsonBody(data) == stringBody(Trim(data, jsonSpace))

\* json.Unmarshal(data, &dst) with dst a string holding cur
storeString(k, data, cur) ==
    CASE k = "syntax" -> [err |-> Errorf("json: syntax error", data), v |-> cur]
      [] k = "null"   -> [err |-> Nil, v |-> cur]
      [] k = "string" -> [err |-> Nil, v |-> unquote(jsonBody(data))]
      [] OTHER        -> [err |-> Errorf("json: cannot unmarshal into string", data), v |-> cur]
json_Unmarshal_string(data, cur) == storeString(jsonKind(data), data, cur)

\* json.Unmarshal(data, &v) with v a json.Number holding cur
storeQuotedNumber(t, data, cur) ==
    IF isValidNumber(t) THEN [err |-> Nil, v |-> t]
    ELSE [err |-> Errorf("json: invalid number literal", data), v |-> cur]
storeNumber(k, data, cur) ==
    CASE k = "syntax" -> [err |-> Errorf("json: syntax error", data), v |-> cur]
      [] k = "null"   -> [err |-> Nil, v |-> cur]
      [] k = "number" -> [err |-> Nil, v |-> Trim(data, jsonSpace)]
      [] k = "string" -> storeQuotedNumber(unquote(jsonBody(data)), data, cur)
      [] OTHER        -> [err |-> Errorf("json: cannot unmarshal into Number", data), v |-> cur]
json_Unmarshal_Number(data, cur) == storeNumber(jsonKind(data), data, cur)

escapeChar(c) ==
    CASE c = Quote     -> <<Backslash, Quote>>
      [] c = Backslash -> <<Backslash, Backslash>>
      [] c = "\n"      -> <<Backslash, "n">>
      [] c = "\r"      -> <<Backslash, "r">>
      [] c = "\t"      -> <<Backslash, "t">>
      [] c = "<"       -> <<Backslash, "u", "0", "0", "3", "c">>
      [] c = ">"       -> <<Backslash, "u", "0", "0", "3", "e">>
      [] c = "&"       -> <<Backslash, "u", "0", "0", "2", "6">>
      [] c = BadByte   -> <<Backslash, "u", "f", "f", "f", "d">>
      [] OTHER         -> <<c>>

RECURSIVE escapeAll(_)
escapeAll(s) == IF s = <<>> THEN <<>> ELSE escapeChar(s[1]) \o escapeAll(Tail(s))

\* json.Marshal(s) of a string: quoted, escaped; it never fails
json_Marshal_string(s) == <<Quote>> \o escapeAll(s) \o <<Quote>>

(***************************************************************************)
(* package strconv and the integers.  An int is a sign and the decimal     *)
(* digits of its magnitude, so that the 64-bit limits are the real ones.   *)
(***************************************************************************)
MaxInt64Mag == <<9,2,2,3,3,7,2,0,3,6,8,5,4,7,7,5,8,0,7>>
MinInt64Mag == <<9,2,2,3,3,7,2,0,3,6,8,5,4,7,7,5,8,0,8>>
IntZero == [neg |-> FALSE, mag |-> <<0>>]

RECURSIVE stripZeros(_)
stripZeros(d) == IF Len(d) > 1 /\ d[1] = 0 THEN stripZeros(Tail(d)) ELSE d

\* a > b for magnitudes without leading zeros
RECURSIVE magGreater(_, _)
magGreater(a, b) ==
    IF Len(a) # Len(b) THEN Len(a) > Len(b)
    ELSE IF a = <<>> THEN FALSE
    ELSE IF a[1] # b[1] THEN a[1] > b[1]
    ELSE magGreater(Tail(a), Tail(b))

\* a conversion without the range check
inRange_unchecked(s, neg, mag) == [err |-> Nil, v |-> [neg |-> neg /\ mag # <<0>>, mag |-> mag]]

\* strconv.ParseInt(s, 10, 64)
\* the range check of a magnitude against the limit of its sign
inRange(s, neg, mag) ==
    IF magGreater(mag, IF neg THEN MinInt64Mag ELSE MaxInt64Mag)
    THEN [err |-> Errorf("strconv.ParseInt: value out of range", s),
          v |-> [neg |-> neg, mag |-> IF neg THEN MinInt64Mag ELSE MaxInt64Mag]]
    ELSE [err |-> Nil, v |-> [neg |-> neg /\ mag # <<0>>, mag |-> mag]]
\* the digits after the sign
parseDigits(s, neg, body) ==
    IF body = <<>> \/ \E k \in 1..Len(body) : ~isDigit(body[k])
    THEN [err |-> Errorf("strconv.ParseInt: invalid syntax", s), v |-> IntZero]
    ELSE inRange(s, neg, stripZeros([k \in 1..Len(body) |-> DigitVal(body[k])]))
ParseInt(s) ==
    parseDigits(s, Len(s) > 0 /\ s[1] = "-",
                IF Len(s) > 0 /\ s[1] \in {"+", "-"} THEN Tail(s) ELSE s)

\* json.Number.Int64
Number_Int64(n) == ParseInt(n)

\* fmt.Appendf(nil, "%d", v)
FormatInt(v) ==
    (IF v.neg THEN <<"-">> ELSE <<>>) \o [k \in 1..Len(v.mag) |-> DigitChars[v.mag[k] + 1]]

(***************************************************************************)
(* package time.  A time.Time is its civil date and clock in its own zone  *)
(* and the zone's offset east of UTC in seconds; the zone's name is not    *)
(* kept.  Abbreviations are resolved in a Local location that knows none   *)
(* but UTC.                                                                *)
(***************************************************************************)
TimeZero == [year |-> 1, month |-> 1, day |-> 1, hour |-> 0, min |-> 0,
             sec |-> 0, nsec |-> 0, offset |-> 0]

isLeap(y) == y % 4 = 0 /\ (y % 100 # 0 \/ y % 400 = 0)
daysIn(m, y) ==
    IF m = 2 THEN (IF isLeap(y) THEN 29 ELSE 28)
    ELSE IF m \in {4, 6, 9, 11} THEN 30 ELSE 31

\* days from 0000-03-01 to the date (proleptic Gregorian)
dayNumber(y, m, d) ==
    LET yy == IF m <= 2 THEN y - 1 ELSE y
        mm == IF m <= 2 THEN m + 9 ELSE m - 3
    IN  365 * yy + (yy \div 4) - (yy \div 100) + (yy \div 400)
        + ((153 * mm + 2) \div 5) + d - 1

\* the instant a time.Time denotes: <<day, second of the day, nanosecond>> in UTC
Instant(t) ==
    LET secs == t.hour * 3600 + t.min * 60 + t.sec - t.offset IN
    <<dayNumber(t.year, t.month, t.day) + (secs \div 86400), secs % 86400, t.nsec>>

\* time.Time.Equal
Time_Equal(a, b) == Instant(a) = Instant(b)

RECURSIVE digitsOf(_)
digitsOf(n) ==
    IF n < 10 THEN <<DigitChars[n + 1]>>
    ELSE digitsOf(n \div 10) \o <<DigitChars[(n % 10) + 1]>>

\* appendInt(b, n, width): n in decimal, zero-padded to width
padTo(d, width) == [k \in 1..(IF width > Len(d) THEN width - Len(d) ELSE 0) |-> "0"] \o d
appendInt(n, width) == padTo(digitsOf(n), width)

RECURSIVE numOf(_)
numOf(d) ==
    IF d = <<>> THEN 0 ELSE 10 * numOf(SubSeq(d, 1, Len(d) - 1)) + DigitVal(d[Len(d)])

\* the ".999999999" fraction: nothing for 0, else the digits without trailing zeros
appendNano(nsec) ==
    IF nsec = 0 THEN <<>> ELSE <<".">> \o TrimRight(appendInt(nsec, 9), {"0"})

\* the "Z07:00" zone: Z for offset 0, else the sign and hh:mm (the seconds are dropped)
zoneMinutes(offset, mins) ==
    IF offset = 0 THEN <<"Z">>
    ELSE <<(IF offset < 0 /\ mins > 0 THEN "-" ELSE "+")>>
         \o appendInt(mins \div 60, 2) \o <<":">> \o appendInt(mins % 60, 2)
appendZone(offset) == zoneMinutes(offset, (IF offset < 0 THEN -offset ELSE offset) \div 60)

\* time.Time.Format(time.RFC3339Nano)
formatRFC3339Nano(t) ==
    appendInt(t.year, 4) \o <<"-">> \o appendInt(t.month, 2) \o <<"-">>
    \o appendInt(t.day, 2) \o <<"T">> \o appendInt(t.hour, 2) \o <<":">>
    \o appendInt(t.min, 2) \o <<":">> \o appendInt(t.sec, 2)
    \o appendNano(t.nsec) \o appendZone(t.offset)

\* time.Time.MarshalJSON: the quoted RFC 3339 text, or an error for a year
\* outside 0..9999 or a zone offset of 24 hours or more
time_MarshalJSON(t) ==
    IF t.year < 0 \/ t.year >= 10000
    THEN [err |-> Errorf("Time.MarshalJSON: year outside of range [0,9999]", <<>>), out |-> <<>>]
    ELSE IF (IF t.offset < 0 THEN -t.offset ELSE t.offset) \div 3600 >= 24
    THEN [err |-> Errorf("Time.MarshalJSON: timezone hour outside of range [0,23]", <<>>), out |-> <<>>]
    ELSE [err |-> Nil, out |-> <<Quote>> \o formatRFC3339Nano(t) \o <<Quote>>]

\* the layouts, as their elements
stdRFC3339 == <<"2006", "-", "01", "-", "02", "T", "15", ":", "04", ":", "05", "Z07:00">>
stdTNamed  == <<"2006", "-", "01", "-", "02", "T", "15", ":", "04", ":", "05", " ", "MST">>
stdSpace   == <<"2006", "-", "01", "-", "02", " ", "15", ":", "04", ":", "05">>
stdTPlain  == <<"2006", "-", "01", "-", "02", "T", "15", ":", "04", ":", "05">>

\* the state of time.Parse: what is left of the value and the fields read so far
parseStart(value) ==
    [ok |-> TRUE, v |-> value, year |-> 0, month |-> 1, day |-> 1, hour |-> 0,
     min |-> 0, sec |-> 0, nsec |-> 0, zone |-> "none", offset |-> 0]
parseFail(st) == [st EXCEPT !.ok = FALSE]

\* getnum(s, fixed): one or two digits (two when fixed)
getnum(s, fixed) ==
    IF ~(Len(s) >= 1 /\ isDigit(s[1])) THEN [ok |-> FALSE, n |-> 0, rest |-> s]
    ELSE IF ~(Len(s) >= 2 /\ isDigit(s[2])) THEN
        IF fixed THEN [ok |-> FALSE, n |-> 0, rest |-> s]
        ELSE [ok |-> TRUE, n |-> DigitVal(s[1]), rest |-> Tail(s)]
    ELSE [ok |-> TRUE, n |-> 10 * DigitVal(s[1]) + DigitVal(s[2]), rest |-> Tail_(s, 3)]

\* skip(value, prefix) for a one-character prefix: a space stands for any run of spaces
skip(st, c) ==
    IF c = " " THEN
        IF Len(st.v) > 0 /\ st.v[1] # " " THEN parseFail(st)
        ELSE [st EXCEPT !.v = TrimLeft(st.v, {" "})]
    ELSE IF Len(st.v) = 0 \/ st.v[1] # c THEN parseFail(st)
    ELSE [st EXCEPT !.v = Tail(st.v)]

\* parseNanoseconds: a period or comma and digits, of which nine count
nanosOf(digits) ==
    numOf(IF Len(digits) > 9 THEN SubSeq(digits, 1, 9)
          ELSE digits \o [k \in 1..(9 - Len(digits)) |-> "0"])
fractionRead(st, rest) ==
    [st EXCEPT !.nsec = nanosOf(SubSeq(st.v, 2, Len(st.v) - Len(rest))), !.v = rest]
parseFraction(st) == fractionRead(st, dropDigits(Tail(st.v)))

\* parseGMT and parseSignedOffset: the length of a zone such as GMT, GMT+3 or +03
offsetDigits(digits) ==
    IF digits = <<>> \/ Len(digits) > 9 \/ numOf(digits) > 23 THEN 0 ELSE 1 + Len(digits)
signedOffsetLen(v) ==
    IF Len(v) = 0 \/ v[1] \notin {"+", "-"} THEN 0
    ELSE offsetDigits(SubSeq(v, 2, Len(v) - Len(dropDigits(Tail(v)))))

\* parseTimeZone: the length of the abbreviation value starts with, 0 for none
\* how many upper-case letters value starts with, counted up to six
countUpper(v) ==
    CHOOSE n \in 0..6 :
        /\ \A k \in 1..n : k <= Len(v) /\ isUpper(v[k])
        /\ (n = 6 \/ n >= Len(v) \/ ~isUpper(v[n + 1]))
zoneLetters(v, nUpper) ==
    IF nUpper = 5 /\ v[5] = "T" THEN 5
    ELSE IF nUpper = 4 /\ (v[4] = "T" \/ SubSeq(v, 1, 4) = <<"W","I","T","A">>) THEN 4
    ELSE IF nUpper = 3 THEN 3
    ELSE 0
parseTimeZone(v) ==
    IF Len(v) < 3 THEN 0
    ELSE IF Len(v) >= 4 /\ SubSeq(v, 1, 4) \in {<<"C","h","S","T">>, <<"M","e","S","T">>} THEN 4
    ELSE IF SubSeq(v, 1, 3) = <<"G","M","T">> THEN 3 + signedOffsetLen(Tail_(v, 4))
    ELSE IF v[1] \in {"+", "-"} THEN signedOffsetLen(v)
    ELSE zoneLetters(v, countUpper(v))

\* the offset of a zone abbreviation Local does not know: 0, but GMT+h is h hours
fakeZoneOffset(name) ==
    IF Len(name) > 3 /\ SubSeq(name, 1, 3) = <<"G","M","T">>
    THEN (IF name[4] = "-" THEN -1 ELSE 1) * numOf(Tail_(name, 5)) * 3600
    ELSE 0

\* a two-digit field: the number read and the parse state after it
numField(st, std, g, st1) ==
    IF ~g.ok THEN parseFail(st)
    ELSE IF std = "01" THEN
        IF g.n <= 0 \/ 12 < g.n THEN parseFail(st) ELSE [st1 EXCEPT !.month = g.n]
    ELSE IF std = "02" THEN [st1 EXCEPT !.day = g.n]
    ELSE IF std = "15" THEN
        IF 24 <= g.n THEN parseFail(st) ELSE [st1 EXCEPT !.hour = g.n]
    ELSE IF std = "04" THEN
        IF 60 <= g.n THEN parseFail(st) ELSE [st1 EXCEPT !.min = g.n]
    ELSE IF 60 <= g.n THEN parseFail(st)
    \* a fraction may follow the seconds although the layout has none
    ELSE IF Len(g.rest) >= 2 /\ g.rest[1] \in {".", ","} /\ isDigit(g.rest[2])
         THEN parseFraction([st1 EXCEPT !.sec = g.n])
    ELSE [st1 EXCEPT !.sec = g.n]
getField(st, std, g) == numField(st, std, g, [st EXCEPT !.v = g.rest])

\* the numeric zone +hh:mm or -hh:mm
zoneOffset(st, hr, mm) ==
    IF ~hr.ok \/ ~mm.ok \/ hr.n > 24 \/ mm.n > 60 \/ st.v[1] \notin {"+", "-"}
    THEN parseFail(st)
    ELSE [st EXCEPT !.zone = "offset", !.v = Tail_(st.v, 7),
                    !.offset = (IF st.v[1] = "-" THEN -1 ELSE 1) * (hr.n * 60 + mm.n) * 60]

\* a zone abbreviation of n letters
zoneName(st, n) ==
    IF n = 0 THEN parseFail(st)
    ELSE [st EXCEPT !.zone = "name", !.v = Tail_(st.v, n + 1),
                    !.offset = fakeZoneOffset(SubSeq(st.v, 1, n))]

\* one element of a layout applied to the parse state
parseElem(st, std) ==
    IF std = "2006" THEN
        IF Len(st.v) >= 4 /\ \A k \in 1..4 : isDigit(st.v[k])
        THEN [st EXCEPT !.year = numOf(SubSeq(st.v, 1, 4)), !.v = Tail_(st.v, 5)]
        ELSE parseFail(st)
    ELSE IF std \in {"01", "02", "15", "04", "05"} THEN getField(st, std, getnum(st.v, std # "15"))
    ELSE IF std = "Z07:00" THEN
        IF Len(st.v) >= 1 /\ st.v[1] = "Z" THEN [st EXCEPT !.zone = "utc", !.v = Tail(st.v)]
        ELSE IF Len(st.v) < 6 \/ st.v[4] # ":" THEN parseFail(st)
        ELSE zoneOffset(st, getnum(SubSeq(st.v, 2, 3), TRUE), getnum(SubSeq(st.v, 5, 6), TRUE))
    ELSE IF std = "MST" THEN
        IF HasPrefix(st.v, <<"U","T","C">>) THEN [st EXCEPT !.zone = "utc", !.v = Tail_(st.v, 4)]
        ELSE zoneName(st, parseTimeZone(st.v))
    ELSE skip(st, std)

RECURSIVE parseElems(_, _)
parseElems(st, layout) ==
    IF ~st.ok \/ layout = <<>> THEN st
    ELSE parseElems(parseElem(st, Head(layout)), Tail(layout))

\* time.Parse(layout, value): ok and the time, read in UTC when the value names no zone
parsed(st) ==
    IF ~st.ok \/ Len(st.v) > 0 \/ st.day < 1 \/ st.day > daysIn(st.month, st.year)
    THEN [ok |-> FALSE, t |-> TimeZero]
    ELSE [ok |-> TRUE,
          t |-> [year |-> st.year, month |-> st.month, day |-> st.day, hour |-> st.hour,
                 min |-> st.min, sec |-> st.sec, nsec |-> st.nsec, offset |-> st.offset]]
time_Parse(layout, value) == parsed(parseElems(parseStart(value), layout))

(***************************************************************************)
(* The four types.  An instance is [value, present]; a method that can     *)
(* fail gives the instance it leaves and the error it returns.             *)
(***************************************************************************)
Kinds == {"String", "Bool", "Int", "Time"}

\* ---- String (string.go) ----
\* what follows the call json.Unmarshal(data, &s.value), which returned r
String_unmarshalled(r) ==
    IF r.err # Nil
    THEN [self |-> [value |-> <<>>, present |-> FALSE], err |-> r.err]
    ELSE [self |-> [value |-> r.v, present |-> TRUE], err |-> Nil]

\* String.UnmarshalJSON clearing present but not the value on an error
String_UnmarshalJSON_keepsValueOnError(s, data) ==
    IF Len(data) = 0 \/ data = tokNull
    THEN [self |-> [value |-> <<>>, present |-> FALSE], err |-> Nil]
    ELSE IF String_unmarshalled(json_Unmarshal_string(data, s.value)).err # Nil
    THEN [self |-> [s EXCEPT !.present = FALSE],
          err |-> String_unmarshalled(json_Unmarshal_string(data, s.value)).err]
    ELSE String_unmarshalled(json_Unmarshal_string(data, s.value))

String_UnmarshalJSON(s, data) ==
    IF Len(data) = 0 \/ data = tokNull
    THEN [self |-> [value |-> <<>>, present |-> FALSE], err |-> Nil]
    ELSE String_unmarshalled(json_Unmarshal_string(data, s.value))

String_Set(s, value) == [value |-> value, present |-> TRUE]

String_Value(s) == IF ~s.present THEN <<>> ELSE s.value

String_Present(s) == s.present

String_MarshalJSON(s) == [out |-> json_Marshal_string(String_Value(s)), err |-> Nil]

String_GetJSON(s) == json_Marshal_string(s.value)

\* ---- Bool (bool.go) ----
\* the switch on str, with b the receiver after b.present = false
Bool_switch(b, data, str) ==
    IF str = tokTrue THEN [self |-> [value |-> TRUE, present |-> TRUE], err |-> Nil]
    ELSE IF str = tokFalse THEN [self |-> [value |-> FALSE, present |-> TRUE], err |-> Nil]
    ELSE [self |-> b, err |-> Errorf("invalid boolean format", data)]

\* the text of the switch without the quotes trimmed off
Bool_str_untrimmed(data) == ToLower(data)

\* the text the switch looks at: the quotes trimmed off, in lower case
Bool_str(data) == ToLower(Trim(data, {Quote}))

\* Bool.UnmarshalJSON without the reset on an empty or null input
Bool_UnmarshalJSON_noReset(b, data) ==
    IF Len(data) = 0 \/ data = tokNull
    THEN [self |-> b, err |-> Nil]
    ELSE Bool_switch([b EXCEPT !.present = FALSE], data, Bool_str(data))

Bool_UnmarshalJSON(b, data) ==
    IF Len(data) = 0 \/ data = tokNull
    THEN [self |-> [value |-> FALSE, present |-> FALSE], err |-> Nil]
    ELSE Bool_switch([b EXCEPT !.present = FALSE], data, Bool_str(data))

Bool_Set(b, value) == [value |-> value, present |-> TRUE]

\* Bool.Value without the test of present
Bool_Value_unguarded(b) == b.value

Bool_Value(b) == IF ~b.present THEN FALSE ELSE b.value

Bool_Present(b) == b.present

\* Bool.MarshalJSON without the test of present
Bool_MarshalJSON_ignoresPresent(b) ==
    IF b.present /\ b.value THEN [out |-> tokTrue, err |-> Nil]
    ELSE [out |-> tokFalse, err |-> Nil]

Bool_MarshalJSON(b) ==
    IF ~b.present THEN [out |-> tokNull, err |-> Nil]
    ELSE IF b.value THEN [out |-> tokTrue, err |-> Nil]
    ELSE [out |-> tokFalse, err |-> Nil]

\* ---- Int (int.go) ----
\* the conversion with the error of v.Int64() dropped
Int_converted_ignoresError(vv) == [self |-> [value |-> vv.v, present |-> TRUE], err |-> Nil]

\* what follows vv, err := v.Int64()
Int_converted(vv) ==
    IF vv.err # Nil
    THEN [self |-> [value |-> IntZero, present |-> FALSE], err |-> vv.err]
    ELSE [self |-> [value |-> vv.v, present |-> TRUE], err |-> Nil]

\* what follows the call json.Unmarshal(data, &v), which returned r
Int_unmarshalled(r) ==
    IF r.err # Nil
    THEN [self |-> [value |-> IntZero, present |-> FALSE], err |-> r.err]
    ELSE Int_converted(Number_Int64(r.v))

\* Int.UnmarshalJSON returning the error without resetting the receiver
Int_UnmarshalJSON_keepsOnError(i, data) ==
    IF Len(data) = 0 \/ data = tokNull
    THEN [self |-> [value |-> IntZero, present |-> FALSE], err |-> Nil]
    ELSE IF Int_unmarshalled(json_Unmarshal_Number(data, <<>>)).err # Nil
    THEN [self |-> i, err |-> Int_unmarshalled(json_Unmarshal_Number(data, <<>>)).err]
    ELSE Int_unmarshalled(json_Unmarshal_Number(data, <<>>))

Int_UnmarshalJSON(i, data) ==
    IF Len(data) = 0 \/ data = tokNull
    THEN [self |-> [value |-> IntZero, present |-> FALSE], err |-> Nil]
    ELSE Int_unmarshalled(json_Unmarshal_Number(data, <<>>))

Int_Set(i, value) == [value |-> value, present |-> TRUE]

Int_Get(i) == IF ~i.present THEN IntZero ELSE i.value

Int_Present(i) == i.present

\* Int.MarshalJSON encoding a not-present Int as null
Int_MarshalJSON_nullWhenAbsent(i) ==
    IF ~i.present THEN [out |-> tokNull, err |-> Nil]
    ELSE [out |-> FormatInt(i.value), err |-> Nil]

Int_MarshalJSON(i) == [out |-> FormatInt(Int_Get(i)), err |-> Nil]

\* ---- Time (time.go) ----
\* the list without its last layout
timeLayouts_withoutPlain == <<stdRFC3339, stdTNamed, stdSpace>>

timeLayouts == <<stdRFC3339, stdTNamed, stdSpace, stdTPlain>>

\* the loop over timeLayouts: the first layout that parses the value wins
RECURSIVE parseLayouts(_, _)
tryLayout(r, layouts, value) == IF r.ok THEN r ELSE parseLayouts(Tail(layouts), value)
parseLayouts(layouts, value) ==
    IF layouts = <<>> THEN [ok |-> FALSE, t |-> TimeZero]
    ELSE tryLayout(time_Parse(Head(layouts), value), layouts, value)

\* the end of the loop with dst.present set only when a layout parsed
Time_parsed_presentOnSuccess(data, r) ==
    IF r.ok THEN [self |-> [value |-> r.t, present |-> TRUE], err |-> Nil]
    ELSE [self |-> [value |-> TimeZero, present |-> FALSE],
          err |-> Errorf("invalid time format", data)]

\* the end of the loop: r is the first layout's parse that succeeded, if any;
\* dst.present is true already
Time_parsed(data, r) ==
    IF r.ok THEN [self |-> [value |-> r.t, present |-> TRUE], err |-> Nil]
    ELSE [self |-> [value |-> TimeZero, present |-> TRUE],
          err |-> Errorf("invalid time format", data)]

\* Time.UnmarshalJSON without the case of the empty quoted string
Time_UnmarshalJSON_noSentinel(dst, data) ==
    IF Len(data) = 0 \/ data = tokNull
    THEN [self |-> [value |-> TimeZero, present |-> FALSE], err |-> Nil]
    ELSE Time_parsed(data, parseLayouts(timeLayouts, Trim(data, {Quote})))

Time_UnmarshalJSON(dst, data) ==
    IF Len(data) = 0 \/ data = tokNull
    THEN [self |-> [value |-> TimeZero, present |-> FALSE], err |-> Nil]
    ELSE IF data = <<Quote, Quote>>
    THEN [self |-> [value |-> TimeZero, present |-> TRUE], err |-> Nil]
    ELSE Time_parsed(data, parseLayouts(timeLayouts, Trim(data, {Quote})))

\* Time.Set marking the Time present only for a value other than the zero time
Time_Set_skipsZero(dst, value) == [value |-> value, present |-> value # TimeZero]

Time_Set(dst, value) == [value |-> value, present |-> TRUE]

Time_Value(dst) == IF ~dst.present THEN TimeZero ELSE dst.value

Time_Present(dst) == dst.present

Time_MarshalJSON(dst) ==
    IF ~dst.present THEN [out |-> tokNull, err |-> Nil]
    ELSE time_MarshalJSON(dst.value)

\* ---- the methods by kind ----
Zero(k) ==
    CASE k = "String" -> [value |-> <<>>, present |-> FALSE]
      [] k = "Bool"   -> [value |-> FALSE, present |-> FALSE]
      [] k = "Int"    -> [value |-> IntZero, present |-> FALSE]
      [] k = "Time"   -> [value |-> TimeZero, present |-> FALSE]

UnmarshalJSON(k, x, data) ==
    CASE k = "String" -> String_UnmarshalJSON(x, data)
      [] k = "Bool"   -> Bool_UnmarshalJSON(x, data)
      [] k = "Int"    -> Int_UnmarshalJSON(x, data)
      [] k = "Time"   -> Time_UnmarshalJSON(x, data)

MarshalJSON(k, x) ==
    CASE k = "String" -> String_MarshalJSON(x)
      [] k = "Bool"   -> Bool_MarshalJSON(x)
      [] k = "Int"    -> Int_MarshalJSON(x)
      [] k = "Time"   -> Time_MarshalJSON(x)

\* Value() / Get()
Accessor(k, x) ==
    CASE k = "String" -> String_Value(x)
      [] k = "Bool"   -> Bool_Value(x)
      [] k = "Int"    -> Int_Get(x)
      [] k = "Time"   -> Time_Value(x)

Present(k, x) ==
    CASE k = "String" -> String_Present(x)
      [] k = "Bool"   -> Bool_Present(x)
      [] k = "Int"    -> Int_Present(x)
      [] k = "Time"   -> Time_Present(x)

(***************************************************************************)
(* Inputs: the byte strings handed to UnmarshalJSON and the values handed  *)
(* to Set                                                                  *)
(***************************************************************************)
sNullPadded == <<" ","n","u","l","l">>
sEmptyQuoted == <<"\"","\"">>
sA == <<"\"","a","\"">>
sEscQuote == <<"\"","a","\\","\"","x","\"">>
sOpen == <<"\"","a">>
sNumber == <<"1","2","3">>
sU003c == <<"\"","<","\"">>
sTrailing == <<"\"","a","\""," ">>
sBadEscape == <<"\"","\\","x","\"">>
bQTrue == <<"\"","t","r","u","e","\"">>
bQFalse == <<"\"","f","a","l","s","e","\"">>
bUpper == <<"T","R","U","E">>
bQMixed == <<"\"","T","r","u","e","\"">>
bLeadQuote == <<"\"","t","r","u","e">>
bTrailQuote == <<"f","a","l","s","e","\"">>
bDoubled == <<"\"","\"","t","r","u","e","\"","\"">>
bYes == <<"y","e","s">>
bOne == <<"1">>
bQNull == <<"\"","n","u","l","l","\"">>
bPadded == <<" ","t","r","u","e">>
iZero == <<"0">>
i123 == <<"1","2","3">>
iQ123 == <<"\"","1","2","3","\"">>
iNeg5 == <<"-","5">>
iQNeg5 == <<"\"","-","5","\"">>
iNegZero == <<"-","0">>
iFloat == <<"1",".","5">>
iQFloat == <<"\"","1",".","5","\"">>
iExp == <<"1","e","3">>
iQAbc == <<"\"","a","b","c","\"">>
iAbc == <<"a","b","c">>
iMax == <<"9","2","2","3","3","7","2","0","3","6","8","5","4","7","7","5","8","0","7">>
iMin == <<"-","9","2","2","3","3","7","2","0","3","6","8","5","4","7","7","5","8","0","8">>
iQMax == <<"\"","9","2","2","3","3","7","2","0","3","6","8","5","4","7","7","5","8","0","7","\"">>
iOver == <<"9","2","2","3","3","7","2","0","3","6","8","5","4","7","7","5","8","0","8">>
iUnder == <<"-","9","2","2","3","3","7","2","0","3","6","8","5","4","7","7","5","8","0","9">>
iHuge == <<"9","9","9","9","9","9","9","9","9","9","9","9","9","9","9","9","9","9","9","9">>
iPadded == <<" ","1","2">>
iLeadZero == <<"0","1","2","3">>
iQLeadZero == <<"\"","0","1","2","3","\"">>
iPlus == <<"+","5">>
tRFC == <<"\"","2","0","2","3","-","1","0","-","0","5","T","1","4",":","4","8",":","0","0","Z","\"">>
tBare == <<"2","0","2","3","-","1","0","-","0","5","T","1","4",":","4","8",":","0","0","Z">>
tInvalid == <<"\"","i","n","v","a","l","i","d","-","t","i","m","e","\"">>
tDateOnly == <<"\"","2","0","2","3","-","1","0","-","0","5","\"">>
tPadded == <<" "," ","\"","2","0","2","3","-","1","0","-","0","5","T","1","4",":","4","8",":","0","0","Z","\""," "," ">>
tNanos == <<"\"","2","0","2","3","-","1","0","-","0","5","T","1","4",":","4","8",":","0","0",".","1","2","3","4","5","6","7","8","9","Z","\"">>
tMillis == <<"\"","2","0","2","3","-","1","0","-","0","5","T","1","4",":","4","8",":","0","0",".","1","2","3","Z","\"">>
tOffset == <<"\"","2","0","2","3","-","1","0","-","0","5","T","1","4",":","4","8",":","0","0","+","0","2",":","0","0","\"">>
tSpace == <<"\"","2","0","2","3","-","1","0","-","0","5"," ","1","4",":","4","8",":","0","0","\"">>
tNamed == <<"\"","2","0","2","3","-","1","0","-","0","5","T","1","4",":","4","8",":","0","0"," ","U","T","C","\"">>
tPlain == <<"\"","2","0","2","3","-","1","0","-","0","5","T","1","4",":","4","8",":","0","0","\"">>
tWrongOrder == <<"\"","0","5","-","1","0","-","2","0","2","3","T","1","4",":","4","8",":","0","0","Z","\"">>
tBadDay == <<"\"","2","0","2","3","-","0","2","-","3","0","T","1","4",":","4","8",":","0","0","Z","\"">>
tShortHour == <<"\"","2","0","2","3","-","1","0","-","0","5","T","4",":","4","8",":","0","0","Z","\"">>
tPST == <<"\"","2","0","2","3","-","1","0","-","0","5","T","1","4",":","4","8",":","0","0"," ","P","S","T","\"">>
tOffset24 == <<"\"","2","0","2","3","-","1","0","-","0","5","T","1","4",":","4","8",":","0","0","+","2","4",":","0","0","\"">>
sEscU == <<"\"","\\","u","0","0","3","c","\"">>
sRawBad == <<Quote, "a", BadByte, Quote>>

StringTokens == {<<>>, tokNull, sNullPadded, sEmptyQuoted, sA, sEscQuote, sOpen, sNumber,
                 tokTrue, sU003c, sEscU, sTrailing, sBadEscape, sRawBad}
StringValues == {<<>>, <<"a">>, <<"a", Quote, "x">>, <<Backslash>>, <<"<">>, <<"a", BadByte>>}

BoolTokens == {<<>>, tokNull, tokTrue, tokFalse, bQTrue, bQFalse, bUpper, bQMixed,
               bLeadQuote, bTrailQuote, bDoubled, bYes, bOne, bQNull, bPadded, sEmptyQuoted}
BoolValues == {TRUE, FALSE}

IntTokens == {<<>>, tokNull, sNullPadded, iZero, i123, iQ123, iNeg5, iQNeg5, iNegZero,
              iFloat, iQFloat, iExp, iQAbc, iAbc, tokTrue, iMax, iMin, iQMax, iOver,
              iUnder, iHuge, iPadded, iLeadZero, iQLeadZero, iPlus, sEmptyQuoted}
IntValues == {IntZero, [neg |-> FALSE, mag |-> <<1,2,3>>], [neg |-> TRUE, mag |-> <<5>>],
              [neg |-> FALSE, mag |-> MaxInt64Mag], [neg |-> TRUE, mag |-> MinInt64Mag]}

TimeTokens == {<<>>, tokNull, sEmptyQuoted, tRFC, tBare, tInvalid, tDateOnly, tPadded,
               tNanos, tMillis, tOffset, tSpace, tNamed, tPlain, tWrongOrder, tBadDay,
               tShortHour, tPST, tOffset24}
tmBase == [year |-> 2023, month |-> 10, day |-> 5, hour |-> 14, min |-> 48,
           sec |-> 0, nsec |-> 0, offset |-> 0]
TimeValues == {TimeZero, tmBase,
               [tmBase EXCEPT !.nsec = 123456789],
               [tmBase EXCEPT !.nsec = 500000000, !.offset = 7200],
               [tmBase EXCEPT !.hour = 0, !.offset = -19800],
               [tmBase EXCEPT !.year = 1900, !.offset = 1172],
               [tmBase EXCEPT !.year = 10000]}

Tokens(k) ==
    CASE k = "String" -> StringTokens
      [] k = "Bool"   -> BoolTokens
      [] k = "Int"    -> IntTokens
      [] k = "Time"   -> TimeTokens

Values(k) ==
    CASE k = "String" -> StringValues
      [] k = "Bool"   -> BoolValues
      [] k = "Int"    -> IntValues
      [] k = "Time"   -> TimeValues

(***************************************************************************)
(* The state: one instance of one of the four types; the last call made on *)
(* it (its argument, the error and output it returned, and the instance as *)
(* it was before the call); and the call that last wrote the instance.     *)
(***************************************************************************)
VARIABLES kind, self, last, made
vars == <<kind, self, last, made>>

Init ==
    /\ kind \in Kinds
    /\ self = Zero(kind)
    /\ last = [op |-> "new", arg |-> <<>>, err |-> Nil, out |-> <<>>, pre |-> Zero(kind)]
    /\ made = [op |-> "new", arg |-> <<>>]

\* the byte strings a caller may hand in: the inputs above, and what MarshalJSON just returned
Inputs == Tokens(kind) \cup
          (IF last.op = "MarshalJSON" /\ last.err = Nil THEN {last.out} ELSE {})

\* a call of UnmarshalJSON(data) that left r.self and returned r.err
Decoded(data, r) ==
    /\ self' = r.self
    /\ last' = [op |-> "UnmarshalJSON", arg |-> data, err |-> r.err, out |-> <<>>,
                pre |-> self]
    /\ made' = [op |-> "UnmarshalJSON", arg |-> data]
    /\ UNCHANGED kind

\* a call of Set(value) that left x
Assigned(value, x) ==
    /\ self' = x
    /\ last' = [op |-> "Set", arg |-> value, err |-> Nil, out |-> <<>>, pre |-> self]
    /\ made' = [op |-> "Set", arg |-> value]
    /\ UNCHANGED kind

\* a call of MarshalJSON() that returned (r.out, r.err)
Encoded(r) ==
    /\ last' = [op |-> "MarshalJSON", arg |-> <<>>, err |-> r.err, out |-> r.out,
                pre |-> self]
    /\ UNCHANGED <<kind, self, made>>

CallString_UnmarshalJSON ==
    kind = "String" /\ \E data \in Inputs : Decoded(data, String_UnmarshalJSON(self, data))
CallBool_UnmarshalJSON ==
    kind = "Bool" /\ \E data \in Inputs : Decoded(data, Bool_UnmarshalJSON(self, data))
CallInt_UnmarshalJSON ==
    kind = "Int" /\ \E data \in Inputs : Decoded(data, Int_UnmarshalJSON(self, data))
CallTime_UnmarshalJSON ==
    kind = "Time" /\ \E data \in Inputs : Decoded(data, Time_UnmarshalJSON(self, data))
CallString_Set == kind = "String" /\ \E v \in StringValues : Assigned(v, String_Set(self, v))
CallBool_Set   == kind = "Bool" /\ \E v \in BoolValues : Assigned(v, Bool_Set(self, v))
CallInt_Set    == kind = "Int" /\ \E v \in IntValues : Assigned(v, Int_Set(self, v))
CallTime_Set   == kind = "Time" /\ \E v \in TimeValues : Assigned(v, Time_Set(self, v))
CallString_MarshalJSON == kind = "String" /\ Encoded(String_MarshalJSON(self))
CallBool_MarshalJSON   == kind = "Bool" /\ Encoded(Bool_MarshalJSON(self))
CallInt_MarshalJSON    == kind = "Int" /\ Encoded(Int_MarshalJSON(self))
CallTime_MarshalJSON   == kind = "Time" /\ Encoded(Time_MarshalJSON(self))

Next ==
    \/ CallString_UnmarshalJSON
    \/ CallBool_UnmarshalJSON
    \/ CallInt_UnmarshalJSON
    \/ CallTime_UnmarshalJSON
    \/ CallString_Set
    \/ CallBool_Set
    \/ CallInt_Set
    \/ CallTime_Set
    \/ CallString_MarshalJSON
    \/ CallBool_MarshalJSON
    \/ CallInt_MarshalJSON
    \/ CallTime_MarshalJSON

Spec == Init /\ [][Next]_vars

(***************************************************************************)
(* Properties                                                              *)
(***************************************************************************)
ZeroValue(k) == Zero(k).value

\* an input UnmarshalJSON takes for an absent field: empty, or exactly null
AbsentMarker(data) == data = <<>> \/ data = tokNull

Decoding == last.op = "UnmarshalJSON"
Encoding == last.op = "MarshalJSON"

\* C1: for each of the four kinds and from any prior state of the instance,
\* UnmarshalJSON on an empty input or on exactly the token null returns no
\* error and leaves Present() false and the accessor returning the zero value.
C1_AbsentMarkerDecodesToAbsent ==
    (Decoding /\ AbsentMarker(last.arg)) =>
        /\ last.err = Nil
        /\ ~Present(kind, self)
        /\ Accessor(kind, self) = ZeroValue(kind)

\* null decoded into an instance that held a value
C1_Witness ==
    /\ Decoding /\ last.arg = tokNull
    /\ Present(kind, last.pre) /\ Accessor(kind, last.pre) # ZeroValue(kind)
    /\ ~Present(kind, self)

\* C2, as stated: for each of the four kinds, after a decode that returned an
\* error the instance is not present and its accessor returns the zero value.
C2_FailedDecodeLeavesAbsent ==
    (Decoding /\ last.err # Nil) =>
        /\ ~Present(kind, self)
        /\ Accessor(kind, self) = ZeroValue(kind)

\* C2, amended: after a decode that returned an error the accessor returns
\* the kind's zero value, whatever the instance held before; String, Bool and
\* Int are then not present, and Time is present.
C2_FailedDecodeLeavesZero ==
    (Decoding /\ last.err # Nil) =>
        /\ Accessor(kind, self) = ZeroValue(kind)
        /\ Present(kind, self) <=> kind = "Time"

\* a failed decode into an instance that held a value
C2_Witness ==
    /\ Decoding /\ last.err # Nil
    /\ Present(kind, last.pre) /\ Accessor(kind, last.pre) # ZeroValue(kind)
    /\ kind # "Time" /\ ~Present(kind, self)

\* the text of a Time input parses under one of timeLayouts
MatchesLayout(data) == parseLayouts(timeLayouts, Trim(data, {Quote})).ok

\* C3, as stated: for Time, UnmarshalJSON on an input that is neither empty
\* nor null and matches none of the layouts returns an error and leaves
\* Present() true.
C3_UnmatchedTimeIsErrorAndPresent ==
    (Decoding /\ kind = "Time" /\ ~AbsentMarker(last.arg) /\ ~MatchesLayout(last.arg)) =>
        /\ last.err # Nil
        /\ Time_Present(self)

\* C3, amended: for Time, UnmarshalJSON on an input that is neither empty,
\* nor null, nor the empty quoted string, and matches none of the layouts
\* returns an error and leaves Present() true; the empty quoted string leaves
\* Present() true as well, without an error.
C3_UnmatchedTimeButEmptyQuotes ==
    (Decoding /\ kind = "Time" /\ ~AbsentMarker(last.arg) /\ ~MatchesLayout(last.arg)) =>
        /\ last.err # Nil <=> last.arg # sEmptyQuoted
        /\ Time_Present(self)

\* a date-only string decoded into a Time that was not present
C3_Witness ==
    /\ Decoding /\ kind = "Time" /\ last.arg = tDateOnly
    /\ ~Time_Present(last.pre)
    /\ last.err # Nil /\ Time_Present(self)

\* C4, as stated: for each of the four kinds, MarshalJSON of an instance
\* whose Present() is false yields exactly the null token.
C4_AbsentEncodesNull ==
    (Encoding /\ ~Present(kind, self)) => last.err = Nil /\ last.out = tokNull

\* C4, amended: MarshalJSON of an instance whose Present() is false yields
\* exactly the null token for Bool and Time, and a token other than null for
\* String and Int.
C4_AbsentEncodesNullForBoolAndTime ==
    (Encoding /\ ~Present(kind, self)) =>
        /\ last.err = Nil
        /\ last.out = tokNull <=> kind \in {"Bool", "Time"}

\* Encode(Decode(null)) of a Time
C4_Witness ==
    /\ Encoding /\ kind = "Time" /\ ~Time_Present(self)
    /\ made = [op |-> "UnmarshalJSON", arg |-> tokNull]
    /\ last.out = tokNull

SameValue(k, a, b) == IF k = "Time" THEN Time_Equal(a, b) ELSE a = b

\* UnmarshalJSON(data) on a fresh instance
Fresh(k, data) == UnmarshalJSON(k, Zero(k), data)

\* C6, as stated: for every kind and every value v, Set(v), then MarshalJSON,
\* then UnmarshalJSON of the produced token into the same or a fresh instance
\* returns no error and yields Present() true with the accessor returning v
\* (for Time: the same instant).
C6_RoundTrip ==
    /\ (Encoding /\ made.op = "Set") =>
          /\ last.err = Nil
          /\ Fresh(kind, last.out).err = Nil
          /\ Present(kind, Fresh(kind, last.out).self)
          /\ SameValue(kind, Accessor(kind, Fresh(kind, last.out).self), made.arg)
    /\ (Decoding /\ Present(kind, last.pre) /\ MarshalJSON(kind, last.pre).err = Nil
          /\ last.arg = MarshalJSON(kind, last.pre).out) =>
          /\ last.err = Nil
          /\ Present(kind, self)
          /\ SameValue(kind, Accessor(kind, self), Accessor(kind, last.pre))

\* a token wrapped in one pair of double quotes, and the token inside
IsQuoted(data) == Len(data) >= 2 /\ data[1] = Quote /\ data[Len(data)] = Quote
Bare(data) == SubSeq(data, 2, Len(data) - 1)

\* the digits of a base-10 integer literal: an optional minus sign, then 0 or
\* digits that do not start with 0
Digits(t) == IF Len(t) > 0 /\ t[1] = "-" THEN Tail(t) ELSE t
IntegerLiteral(t) ==
    /\ Len(Digits(t)) > 0
    /\ \A k \in 1..Len(Digits(t)) : isDigit(Digits(t)[k])
    /\ Len(Digits(t)) > 1 => Digits(t)[1] # "0"

\* the number an integer literal denotes
LiteralValue(t) ==
    [neg |-> t[1] = "-" /\ Digits(t) # <<"0">>,
     mag |-> [k \in 1..Len(Digits(t)) |-> DigitVal(Digits(t)[k])]]

\* a <= b for two sequences of decimal digits without leading zeros
DigitsLeq(a, b) ==
    \/ Len(a) < Len(b)
    \/ Len(a) = Len(b) /\
         (a = b \/ \E k \in 1..Len(a) : a[k] < b[k] /\ \A j \in 1..(k - 1) : a[j] = b[j])

\* -2^63 <= n <= 2^63 - 1 for the number n of an integer literal
InInt64(t) ==
    DigitsLeq(LiteralValue(t).mag, IF t[1] = "-" THEN MinInt64Mag ELSE MaxInt64Mag)

\* the valid bare tokens of Bool and Int
ValidToken(k, t) ==
    IF k = "Bool" THEN t \in {tokTrue, tokFalse} ELSE IntegerLiteral(t) /\ InInt64(t)

\* C7: for Bool and Int, decoding the quoted form of a valid token gives the
\* same error outcome, Present() and Value() as decoding the bare token, and
\* re-encoding yields the bare form.
C7_QuotedEqualsBare ==
    (Decoding /\ kind \in {"Bool", "Int"} /\ IsQuoted(last.arg)
        /\ ValidToken(kind, Bare(last.arg))) =>
        /\ last.err = UnmarshalJSON(kind, last.pre, Bare(last.arg)).err
        /\ Present(kind, self) = Present(kind, UnmarshalJSON(kind, last.pre, Bare(last.arg)).self)
        /\ Accessor(kind, self) = Accessor(kind, UnmarshalJSON(kind, last.pre, Bare(last.arg)).self)
        /\ Quote \notin Range(MarshalJSON(kind, self).out)
        /\ Bare(last.arg) # iNegZero => MarshalJSON(kind, self).out = Bare(last.arg)

\* "123" decoded into an Int that held another value
C7_Witness ==
    /\ Decoding /\ kind = "Int" /\ last.arg = iQ123
    /\ Int_Present(last.pre) /\ Int_Get(last.pre) # Int_Get(self)
    /\ last.err = Nil /\ Int_MarshalJSON(self).out = i123

\* the forms of true and false Bool accepts: the word in any case, bare or
\* wrapped in one pair of double quotes
AcceptedBool(data) ==
    \/ ToLower(data) \in {tokTrue, tokFalse}
    \/ IsQuoted(data) /\ ToLower(Bare(data)) \in {tokTrue, tokFalse}

\* C8, as stated: Bool.UnmarshalJSON on a non-empty, non-null input that is
\* not true or false (in any case), bare or wrapped in one matching pair of
\* double quotes, returns an error; so for a leading quote only, a trailing
\* quote only, or doubled quotes around the word.
C8_BoolRejectsOtherForms ==
    (Decoding /\ kind = "Bool" /\ ~AbsentMarker(last.arg) /\ ~AcceptedBool(last.arg)) =>
        last.err # Nil

\* the token of an input: the input without the white space around it
Token(data) == Trim(data, jsonSpace)

\* a base-10 integer literal, bare or quoted
IntegerToken(t) == IntegerLiteral(t) \/ (IsQuoted(t) /\ IntegerLiteral(Bare(t)))

Literal(data) == IF IsQuoted(Token(data)) THEN Bare(Token(data)) ELSE Token(data)

FourLayouts == <<stdRFC3339, stdTNamed, stdSpace, stdTPlain>>

\* the layouts that parse the input once its surrounding quotes are stripped
Matching(data) == {k \in 1..4 : time_Parse(FourLayouts[k], Trim(data, {Quote})).ok}

\* the parse result of the first of them
FirstMatch(data) ==
    time_Parse(FourLayouts[CHOOSE k \in Matching(data) : \A j \in Matching(data) : k <= j],
               Trim(data, {Quote})).t

\* the decode succeeded iff a layout matched, stored the first match, and
\* failed with "invalid time format" and the raw input otherwise
DecodedByLayouts ==
    /\ last.err = Nil <=> Matching(last.arg) # {}
    /\ Matching(last.arg) # {} => Time_Present(self) /\ Time_Value(self) = FirstMatch(last.arg)
    /\ Matching(last.arg) = {} => last.err = Errorf("invalid time format", last.arg)

\* C11, as stated: Time.UnmarshalJSON strips the surrounding quotes and tries
\* the four layouts in order; the decode succeeds iff at least one layout
\* matches, the stored value is the parse result of the first matching
\* layout, and if none match the error is "invalid time format" with the raw
\* input.
C11_LayoutsDecideDecode ==
    (Decoding /\ kind = "Time") => DecodedByLayouts

\* C11, amended: the same for every input that is not empty, not null and not
\* the empty quoted string; these three succeed although no layout matches.
C11_LayoutsDecideOtherInputs ==
    (Decoding /\ kind = "Time") =>
        IF AbsentMarker(last.arg) \/ last.arg = sEmptyQuoted
        THEN last.err = Nil /\ Matching(last.arg) = {}
        ELSE DecodedByLayouts

\* an input of the last layout decoded into a Time that held another value
C11_Witness ==
    /\ Decoding /\ kind = "Time" /\ last.arg = tPlain
    /\ Matching(last.arg) = {4}
    /\ Time_Present(last.pre) /\ Time_Value(last.pre) # Time_Value(self)
    /\ last.err = Nil /\ Time_Value(self) = tmBase

\* C12: for Time, decoding exactly the empty quoted string returns no error
\* and leaves Present() true with Value() the zero time, from any prior state.
C12_EmptyQuotesMarkPresence ==
    (Decoding /\ kind = "Time" /\ last.arg = sEmptyQuoted) =>
        /\ last.err = Nil
        /\ Time_Present(self)
        /\ Time_Value(self) = TimeZero

\* the empty quoted string decoded into a Time that held a value
C12_Witness ==
    /\ Decoding /\ kind = "Time" /\ last.arg = sEmptyQuoted
    /\ Time_Present(last.pre) /\ Time_Value(last.pre) # TimeZero
    /\ Time_Present(self) /\ Time_Value(self) = TimeZero

\* C13, as stated: MarshalJSON never returns an error for Bool, Int or Time,
\* in any state reachable through Set and decode calls.
C13_MarshalNeverFails ==
    (Encoding /\ kind \in {"Bool", "Int", "Time"}) => last.err = Nil

\* the token is the quoted RFC 3339 form of the time t: it parses under the
\* RFC 3339 layout to the instant and zone offset of t, has a fraction only
\* when t has one, and ends in Z exactly when the offset is zero
IsRFC3339Of(out, t) ==
    /\ IsQuoted(out)
    /\ time_Parse(stdRFC3339, Bare(out)).ok
    /\ Time_Equal(time_Parse(stdRFC3339, Bare(out)).t, t)
    /\ time_Parse(stdRFC3339, Bare(out)).t.offset = t.offset
    /\ "." \in Range(out) <=> t.nsec # 0
    /\ out[Len(out) - 1] = "Z" <=> t.offset = 0

\* the inputs that a fresh Time decodes to the instant and zone offset of t
SameInstantInputs(t) ==
    {d \in TimeTokens : /\ Matching(d) # {}
                        /\ Time_Equal(FirstMatch(d), t)
                        /\ FirstMatch(d).offset = t.offset}

\* C14, as stated: for an input accepted by any of the four layouts,
\* MarshalJSON after the decode emits the quoted RFC 3339 form of the decoded
\* instant, so inputs in different layouts that denote the same instant and
\* zone encode to the same token.
C14_EncodedFormIgnoresLayout ==
    (Encoding /\ kind = "Time" /\ made.op = "UnmarshalJSON" /\ Matching(made.arg) # {}) =>
        /\ last.err = Nil
        /\ IsRFC3339Of(last.out, Time_Value(self))
        /\ \A d \in SameInstantInputs(Time_Value(self)) :
              Time_MarshalJSON(Time_UnmarshalJSON(Zero("Time"), d).self).out = last.out

\* C15: Set(v) is unconditional for every kind: from any prior state it
\* leaves Present() true and the accessor returning exactly v, and rejects no v.
C15_SetIsUnconditional ==
    last.op = "Set" =>
        /\ last.err = Nil
        /\ Present(kind, self)
        /\ Accessor(kind, self) = last.arg

\* Set(false) on a Bool that a failed decode left not present with the stored
\* value true
C15_Witness ==
    /\ last.op = "Set" /\ kind = "Bool" /\ last.arg = FALSE
    /\ ~Bool_Present(last.pre) /\ last.pre.value = TRUE
    /\ Bool_Present(self) /\ Bool_Value(self) = FALSE

\* C16: in every reachable state, for every kind, Present() false implies that
\* the accessor returns the kind's zero value.
C16_AbsentReadsZero ==
    ~Present(kind, self) => Accessor(kind, self) = ZeroValue(kind)

\* a Bool that is not present and whose stored value is true
C16_Witness ==
    /\ kind = "Bool" /\ ~Bool_Present(self) /\ self.value = TRUE
    /\ Decoding /\ last.err # Nil
    /\ Bool_Value(self) = FALSE

\* C17, as stated: for every kind and every prior state, after UnmarshalJSON
\* returned an error the stored value field of the instance is the kind's
\* zero value.
C17_FailedDecodeResetsField ==
    (Decoding /\ last.err # Nil) => self.value = ZeroValue(kind)

\* what a caller can observe of an instance: Present(), the accessor's result
\* and what MarshalJSON returns
Observable(k, x) == <<Present(k, x), Accessor(k, x), MarshalJSON(k, x)>>

\* C18, as stated: the error and the observable state after UnmarshalJSON(x)
\* are those of a fresh instance decoding x, whatever the instance held
\* before, and decoding x once more changes neither.
C18_DecodeIgnoresHistory ==
    Decoding =>
        /\ last.err = Fresh(kind, last.arg).err
        /\ Observable(kind, self) = Observable(kind, Fresh(kind, last.arg).self)
        /\ UnmarshalJSON(kind, self, last.arg).err = last.err
        /\ Observable(kind, UnmarshalJSON(kind, self, last.arg).self) = Observable(kind, self)

\* C19: in every state of a String, present false implies that the stored
\* value is the empty string, and GetJSON() returns the token MarshalJSON()
\* returns.
C19_GetJSONEqualsMarshalJSON ==
    kind = "String" =>
        /\ ~self.present => self.value = <<>>
        /\ String_MarshalJSON(self).err = Nil
        /\ String_GetJSON(self) = String_MarshalJSON(self).out

\* a String that held a value, after a failed decode
C19_Witness ==
    /\ kind = "String" /\ Decoding /\ last.err # Nil
    /\ String_Present(last.pre) /\ String_Value(last.pre) # <<>>
    /\ ~String_Present(self)
    /\ String_GetJSON(self) = sEmptyQuoted

====
